---- MODULE Spec2Model ----
(***************************************************************************)
(* Byte-pair-encoding tokenizer (src/src/byte_pair_encoding.rs).           *)
(*                                                                         *)
(* A char is its Unicode code point, a String is a sequence of code        *)
(* points, a Vec<String> is a sequence of Strings and a HashMap is a       *)
(* function on its key set.  A HashMap is iterated in an unspecified       *)
(* order: every operator that iterates one takes the order as a parameter  *)
(* and the actions choose it freely.                                       *)
(***************************************************************************)
EXTENDS Integers, Sequences, FiniteSets, TLC

\* ---------------------------------------------------------------- bounds
MaxLen == 4
MaxTarget == 4
MaxPreLen == 3
MaxWordLen == 3
MaxCount == 2

\* code points the training corpus and the tokenized text are drawn from
Alphabet == {32, 97, 98}
\* code points the pre-tokenizer alone is run on: the six punctuation
\* characters and two letters
PreAlphabet == {32, 46, 44, 33, 63, 10, 97, 98}
\* symbols the merge engine alone is run on: "a", "b", "ab"
MergeSymbols == {<<97>>, <<98>>, <<97, 98>>}

Strings(A, n) == UNION {[1..k -> A] : k \in 0..n}

\* ------------------------------------------------------------- constants
PUNCTUATION == {32, 46, 44, 33, 63, 10}
START_TOKEN == <<60, 124, 115, 116, 97, 114, 116, 111, 102, 116, 101, 120, 116, 124, 62>>
END_TOKEN == <<60, 124, 101, 110, 100, 111, 102, 116, 101, 120, 116, 124, 62>>

\* --------------------------------------------------------------- helpers
\* [String]::join("")
RECURSIVE Join(_)
Join(v) == IF v = <<>> THEN <<>> ELSE Head(v) \o Join(Tail(v))

\* Ord for String: lexicographic on code points, a proper prefix is smaller
RECURSIVE StrLess(_, _)
StrLess(s, t) ==
    IF t = <<>> THEN FALSE
    ELSE IF s = <<>> THEN TRUE
    ELSE IF Head(s) # Head(t) THEN Head(s) < Head(t)
    ELSE StrLess(Tail(s), Tail(t))

\* Ord for Vec<String>: lexicographic on the elements
RECURSIVE VecLess(_, _)
VecLess(u, v) ==
    IF v = <<>> THEN FALSE
    ELSE IF u = <<>> THEN TRUE
    ELSE IF Head(u) # Head(v) THEN StrLess(Head(u), Head(v))
    ELSE VecLess(Tail(u), Tail(v))

\* Ord::max(self, other): other unless self is greater
VecMax(u, v) == IF VecLess(v, u) THEN u ELSE v

EmptyMap == [k \in {} |-> 0]

\* *map.entry(k).or_insert(0) += n
EntryAdd(m, k, n) ==
    [x \in DOMAIN m \cup {k} |->
        IF x = k THEN (IF k \in DOMAIN m THEN m[k] ELSE 0) + n ELSE m[x]]

\* map.insert(k, v)
Insert(m, k, v) == [x \in DOMAIN m \cup {k} |-> IF x = k THEN v ELSE m[x]]

\* the orders in which a HashMap with key set S can be iterated
Orders(S) ==
    {f \in [1..Cardinality(S) -> S] : \A i, j \in DOMAIN f : f[i] = f[j] => i = j}

\* ------------------------------------------------------- build_vocablary
\* The Vec's order is unspecified and only its length is read; its elements
\* are pairwise distinct (one-character strings and the two markers).
build_vocablary(corpus) ==
    {<<corpus[i]>> : i \in 1..Len(corpus)} \cup {START_TOKEN, END_TOKEN}

\* ---------------------------------------------------------- pre_tokenize
\* mutant: the flush does not test that the buffer is non-empty
RECURSIVE pre_tokenize_loop_eager(_, _, _, _)
pre_tokenize_loop_eager(corpus, k, prepped, word) ==
    IF k > Len(corpus) THEN Append(prepped, Join(word))
    ELSE LET c == corpus[k]
             flush == c \in PUNCTUATION
             prepped1 == IF flush THEN Append(prepped, Join(word)) ELSE prepped
             word1 == IF flush THEN <<>> ELSE word
         IN pre_tokenize_loop_eager(corpus, k + 1, prepped1, Append(word1, <<c>>))

\* `k` is the 1-based position of the next char, `word` the buffer
RECURSIVE pre_tokenize_loop(_, _, _, _)
pre_tokenize_loop(corpus, k, prepped, word) ==
    IF k > Len(corpus) THEN Append(prepped, Join(word))
    ELSE LET c == corpus[k]
             flush == word # <<>> /\ c \in PUNCTUATION
             prepped1 == IF flush THEN Append(prepped, Join(word)) ELSE prepped
             word1 == IF flush THEN <<>> ELSE word
         IN pre_tokenize_loop(corpus, k + 1, prepped1, Append(word1, <<c>>))

pre_tokenize(corpus) == pre_tokenize_loop(corpus, 1, <<>>, <<>>)

\* ----------------------------------------------------------- text_to_map
splitted_word(word) == [i \in 1..Len(word) |-> <<word[i]>>]

RECURSIVE text_to_map_fold(_, _, _)
text_to_map_fold(text, k, words) ==
    IF k > Len(text) THEN words
    ELSE text_to_map_fold(text, k + 1, EntryAdd(words, splitted_word(text[k]), 1))

text_to_map(text) == text_to_map_fold(text, 1, EmptyMap)

\* ------------------------------------------------ get_most_frequent_pair
\* mutant: a tie keeps the pair found first
TrackPair_first_wins(st, p, freq) ==
    LET pairs1 == EntryAdd(st.pairs, p, freq)
        entry == pairs1[p]
    IN IF entry > st.highest_freq
       THEN [pairs |-> pairs1, most_freq_pair |-> p, highest_freq |-> entry]
       ELSE [pairs |-> pairs1, most_freq_pair |-> st.most_freq_pair,
             highest_freq |-> st.highest_freq]

\* One step of the running maximum (lines 124-136) for one adjacent pair.
TrackPair(st, p, freq) ==
    LET pairs1 == EntryAdd(st.pairs, p, freq)
        entry == pairs1[p]
    IN IF entry > st.highest_freq
       THEN [pairs |-> pairs1, most_freq_pair |-> p, highest_freq |-> entry]
       ELSE IF entry = st.highest_freq
       THEN [pairs |-> pairs1, most_freq_pair |-> VecMax(st.most_freq_pair, p),
             highest_freq |-> st.highest_freq]
       ELSE [pairs |-> pairs1, most_freq_pair |-> st.most_freq_pair,
             highest_freq |-> st.highest_freq]

\* for i in 0..n - 1, for a word of n >= 1 symbols (`i` is 1-based here)
RECURSIVE ScanWord(_, _, _, _)
ScanWord(word, freq, i, st) ==
    IF i > Len(word) - 1 THEN st
    ELSE ScanWord(word, freq, i + 1, TrackPair(st, <<word[i], word[i + 1]>>, freq))

RECURSIVE ScanWords(_, _, _, _)
ScanWords(words, order, k, st) ==
    IF k > Len(order) THEN st
    ELSE ScanWords(words, order, k + 1, ScanWord(order[k], words[order[k]], 1, st))

\* Defined for maps without a zero-length word; on a zero-length word
\* `n - 1` underflows (see From_Analyze).
get_most_frequent_pair(words, order) ==
    LET st == ScanWords(words, order, 1,
                        [pairs |-> EmptyMap, most_freq_pair |-> <<>>, highest_freq |-> 0])
    IN [pair |-> st.most_freq_pair, freq |-> st.highest_freq]

\* --------------------------------------------------------- merge_by_pair
\* mutant: only the pair's first symbol is compared
RECURSIVE merge_word_loop_first_only(_, _, _)
merge_word_loop_first_only(new_word, i, pair) ==
    IF ~(i < Len(new_word) - 1) THEN new_word
    ELSE IF new_word[i + 1] = pair[1]
         THEN merge_word_loop_first_only(
                  SubSeq(new_word, 1, i) \o <<Join(pair)>>
                      \o SubSeq(new_word, i + 3, Len(new_word)),
                  i + 1, pair)
         ELSE merge_word_loop_first_only(new_word, i + 1, pair)

\* mutant: the merged symbol is the pair's first symbol, not the concatenation
RECURSIVE merge_word_loop_drop(_, _, _)
merge_word_loop_drop(new_word, i, pair) ==
    IF ~(i < Len(new_word) - 1) THEN new_word
    ELSE IF new_word[i + 1] = pair[1] /\ new_word[i + 2] = pair[2]
         THEN merge_word_loop_drop(
                  SubSeq(new_word, 1, i) \o <<pair[1]>>
                      \o SubSeq(new_word, i + 3, Len(new_word)),
                  i + 1, pair)
         ELSE merge_word_loop_drop(new_word, i + 1, pair)

\* the while loop of lines 154-160 for a word of n >= 1 symbols; `i` is the
\* source's 0-based index
RECURSIVE merge_word_loop(_, _, _)
merge_word_loop(new_word, i, pair) ==
    IF ~(i < Len(new_word) - 1) THEN new_word
    ELSE IF new_word[i + 1] = pair[1] /\ new_word[i + 2] = pair[2]
         THEN merge_word_loop(
                  SubSeq(new_word, 1, i) \o <<Join(pair)>>
                      \o SubSeq(new_word, i + 3, Len(new_word)),
                  i + 1, pair)
         ELSE merge_word_loop(new_word, i + 1, pair)

merge_word(word, pair) == merge_word_loop(word, 0, pair)

RECURSIVE merge_fold(_, _, _, _, _)
merge_fold(words, pair, order, k, new_words) ==
    IF k > Len(order) THEN new_words
    ELSE merge_fold(words, pair, order, k + 1,
                    EntryAdd(new_words, merge_word(order[k], pair), words[order[k]]))

merge_by_pair(words, pair, order) == merge_fold(words, pair, order, 1, EmptyMap)

\* -------------------------------------------- from: the dictionary build
\* mutant: the fold stops before the last word
RECURSIVE tokenizer_mapper_short(_, _, _)
tokenizer_mapper_short(order, k, map) ==
    IF k >= Len(order) THEN map
    ELSE tokenizer_mapper_short(order, k + 1, Insert(map, Join(order[k]), order[k]))

RECURSIVE tokenizer_mapper(_, _, _)
tokenizer_mapper(order, k, map) ==
    IF k > Len(order) THEN map
    ELSE tokenizer_mapper(order, k + 1, Insert(map, Join(order[k]), order[k]))

\* -------------------------------------------------------------- tokenize
Ok(tokens) == [ok |-> TRUE, tokens |-> tokens, kind |-> "", msg |-> ""]
Err(kind, msg) == [ok |-> FALSE, tokens |-> <<>>, kind |-> kind, msg |-> msg]
NoResult == [ok |-> FALSE, tokens |-> <<>>, kind |-> "", msg |-> ""]

RECURSIVE tokenize_loop(_, _, _, _)
tokenize_loop(dict, units, k, tokenized) ==
    IF k > Len(units) THEN Ok(Append(tokenized, END_TOKEN))
    ELSE IF units[k] \notin DOMAIN dict
         THEN Err("InvalidInput", "Word not found in vocabulary")
         ELSE tokenize_loop(dict, units, k + 1, tokenized \o dict[units[k]])

\* mutant: an unknown word is skipped instead of failing the call
RECURSIVE tokenize_loop_skip(_, _, _, _)
tokenize_loop_skip(dict, units, k, tokenized) ==
    IF k > Len(units) THEN Ok(Append(tokenized, END_TOKEN))
    ELSE IF units[k] \notin DOMAIN dict
         THEN tokenize_loop_skip(dict, units, k + 1, tokenized)
         ELSE tokenize_loop_skip(dict, units, k + 1, tokenized \o dict[units[k]])

tokenize_skip(dict, txt) ==
    tokenize_loop_skip(dict, pre_tokenize(txt), 1, <<START_TOKEN>>)

\* mutant: the start marker is missing
tokenize_no_start(dict, txt) == tokenize_loop(dict, pre_tokenize(txt), 1, <<>>)

tokenize(dict, txt) == tokenize_loop(dict, pre_tokenize(txt), 1, <<START_TOKEN>>)

\* ================================================================= state
VARIABLES
    pc,             \* position: start, loop, analyzed, build, trained, tokenized, panic
    corpus,         \* from's corpus
    max_vocab_size, \* from's max_vocab_size
    vocab_size,     \* from's vocab_size, then the struct's field
    words,          \* the corpus model
    pair,           \* get_most_frequent_pair's pair
    freq,           \* get_most_frequent_pair's frequency
    tokenizer,      \* the struct's dictionary
    text,           \* the text of the last tokenize / pre_tokenize call
    pre_tokenized,  \* the result of the last pre_tokenize call
    result,         \* the result of the last tokenize call
    panic_msg,      \* the message the thread panicked with
    new_words       \* the result of the last stand-alone merge_by_pair call

vars == <<pc, corpus, max_vocab_size, vocab_size, words, pair, freq, tokenizer,
          text, pre_tokenized, result, panic_msg, new_words>>

\* ------------------------------------------- BytePairEncoding::from, then
\* tokenize calls on the trained tokenizer
Init ==
    /\ pc = "start"
    /\ corpus \in Strings(Alphabet, MaxLen)
    /\ max_vocab_size \in 0..MaxTarget
    /\ vocab_size = 0
    /\ words = EmptyMap
    /\ pair = <<>>
    /\ freq = 0
    /\ tokenizer = EmptyMap
    /\ text = <<>>
    /\ pre_tokenized = <<>>
    /\ result = NoResult
    /\ panic_msg = ""
    /\ new_words = EmptyMap

\* lines 16-33
From_Start ==
    /\ pc = "start"
    /\ LET size == Cardinality(build_vocablary(corpus)) - 2
       IN /\ vocab_size' = size
          /\ IF ~(max_vocab_size > size)
             THEN /\ pc' = "panic"
                  /\ panic_msg' = "vocab_size must be greater than the size of the text"
                  /\ UNCHANGED <<words, tokenizer>>
             ELSE IF max_vocab_size = size
             THEN /\ pc' = "trained"
                  /\ vocab_size' = max_vocab_size
                  /\ tokenizer' = EmptyMap
                  /\ UNCHANGED <<words, panic_msg>>
             ELSE /\ pc' = "loop"
                  /\ words' = text_to_map(pre_tokenize(corpus))
                  /\ UNCHANGED <<tokenizer, panic_msg>>
    /\ UNCHANGED <<corpus, max_vocab_size, pair, freq, text, pre_tokenized, result,
                   new_words>>

\* line 35: while max_vocab_size > vocab_size (a mutant with an off-by-one bound
\* precedes it)
loop_condition_inclusive == max_vocab_size >= vocab_size

loop_condition == max_vocab_size > vocab_size

\* lines 35-36: the loop condition holds, the analyzer runs.  On a
\* zero-length word `n - 1` underflows: a build with overflow checks panics
\* at the subtraction, a build without them wraps to usize::MAX and panics
\* at word[0].
From_Analyze ==
    /\ pc = "loop"
    /\ loop_condition
    /\ \E order \in Orders(DOMAIN words), overflow_checks \in BOOLEAN :
          IF \E w \in DOMAIN words : Len(w) = 0
          THEN /\ pc' = "panic"
               /\ panic_msg' = IF overflow_checks
                               THEN "attempt to subtract with overflow"
                               ELSE "index out of bounds"
               /\ UNCHANGED <<pair, freq>>
          ELSE LET r == get_most_frequent_pair(words, order)
               IN /\ pc' = "analyzed"
                  /\ pair' = r.pair
                  /\ freq' = r.freq
                  /\ UNCHANGED panic_msg
    /\ UNCHANGED <<corpus, max_vocab_size, vocab_size, words, tokenizer, text,
                   pre_tokenized, result, new_words>>

\* line 35: the loop condition fails
From_LoopExit ==
    /\ pc = "loop"
    /\ ~loop_condition
    /\ pc' = "build"
    /\ UNCHANGED <<corpus, max_vocab_size, vocab_size, words, pair, freq, tokenizer,
                   text, pre_tokenized, result, panic_msg, new_words>>

\* lines 37-39
From_Break ==
    /\ pc = "analyzed"
    /\ freq = 0
    /\ pc' = "build"
    /\ UNCHANGED <<corpus, max_vocab_size, vocab_size, words, pair, freq, tokenizer,
                   text, pre_tokenized, result, panic_msg, new_words>>

\* lines 41-42
From_Merge ==
    /\ pc = "analyzed"
    /\ freq # 0
    /\ \E order \in Orders(DOMAIN words) :
          words' = merge_by_pair(words, pair, order)
    /\ vocab_size' = vocab_size + 1
    /\ pc' = "loop"
    /\ UNCHANGED <<corpus, max_vocab_size, pair, freq, tokenizer, text,
                   pre_tokenized, result, panic_msg, new_words>>

\* lines 45-56
From_Build ==
    /\ pc = "build"
    /\ \E order \in Orders(DOMAIN words) :
          tokenizer' = tokenizer_mapper(order, 1, EmptyMap)
    /\ pc' = "trained"
    /\ UNCHANGED <<corpus, max_vocab_size, vocab_size, words, pair, freq, text,
                   pre_tokenized, result, panic_msg, new_words>>

\* lines 59-73: one call on the trained tokenizer, on any text
Tokenize ==
    /\ pc = "trained"
    /\ \E t \in Strings(Alphabet, MaxLen) :
          /\ text' = t
          /\ pre_tokenized' = pre_tokenize(t)
          /\ result' = tokenize(tokenizer, t)
    /\ pc' = "tokenized"
    /\ UNCHANGED <<corpus, max_vocab_size, vocab_size, words, pair, freq,
                   tokenizer, panic_msg, new_words>>

Next ==
    \/ From_Start
    \/ From_Analyze
    \/ From_LoopExit
    \/ From_Break
    \/ From_Merge
    \/ From_Build
    \/ Tokenize

Spec == Init /\ [][Next]_vars

\* ------------------------------------------------ pre_tokenize on its own
InitPre ==
    /\ pc = "pre_start"
    /\ corpus = <<>>
    /\ max_vocab_size = 0
    /\ vocab_size = 0
    /\ words = EmptyMap
    /\ pair = <<>>
    /\ freq = 0
    /\ tokenizer = EmptyMap
    /\ text \in Strings(PreAlphabet, MaxPreLen)
    /\ pre_tokenized = <<>>
    /\ result = NoResult
    /\ panic_msg = ""
    /\ new_words = EmptyMap

PreTokenize ==
    /\ pc = "pre_start"
    /\ pre_tokenized' = pre_tokenize(text)
    /\ pc' = "pre_done"
    /\ UNCHANGED <<corpus, max_vocab_size, vocab_size, words, pair, freq, tokenizer,
                   text, result, panic_msg, new_words>>

NextPre == PreTokenize

SpecPre == InitPre /\ [][NextPre]_vars

\* ----------------------------------------------- merge_by_pair on its own
\* corpus models of one or two words of 1..MaxWordLen symbols
MergeWords == Strings(MergeSymbols, MaxWordLen) \ {<<>>}
MergeModels ==
    UNION {[S -> 1..MaxCount] : S \in {{u, v} : u, v \in MergeWords}}

InitMerge ==
    /\ pc = "merge_start"
    /\ corpus = <<>>
    /\ max_vocab_size = 0
    /\ vocab_size = 0
    /\ words \in MergeModels
    /\ pair \in MergeSymbols \X MergeSymbols
    /\ freq = 0
    /\ tokenizer = EmptyMap
    /\ text = <<>>
    /\ pre_tokenized = <<>>
    /\ result = NoResult
    /\ panic_msg = ""
    /\ new_words = EmptyMap

MergeByPair ==
    /\ pc = "merge_start"
    /\ \E order \in Orders(DOMAIN words) :
          new_words' = merge_by_pair(words, pair, order)
    /\ pc' = "merge_done"
    /\ UNCHANGED <<corpus, max_vocab_size, vocab_size, words, pair, freq, tokenizer,
                   text, pre_tokenized, result, panic_msg>>

NextMerge == MergeByPair

SpecMerge == InitMerge /\ [][NextMerge]_vars

\* ================================================================ claims
\* ------------------------------------------------- vocabulary of the claims
RECURSIVE SumOver(_, _)
SumOver(S, f) ==
    IF S = {} THEN 0
    ELSE LET x == CHOOSE y \in S : TRUE IN f[x] + SumOver(S \ {x}, f)

Range(f) == {f[x] : x \in DOMAIN f}

NumDistinctChars(c) == Cardinality(Range(c))

\* the word units of the training corpus
CorpusUnits == Range(pre_tokenize(corpus))

\* from has returned a tokenizer
Trained == pc \in {"trained", "tokenized"}

\* the dictionary's symbol sequence of every word unit of the text, in order
UnitTokens == [k \in DOMAIN pre_tokenized |-> tokenizer[pre_tokenized[k]]]

AllUnitsKnown == \A k \in DOMAIN pre_tokenized : pre_tokenized[k] \in DOMAIN tokenizer

\* the adjacent pairs of a corpus model and their aggregate frequencies
PairsOf(m) == UNION {{<<w[i], w[i + 1]>> : i \in 1..(Len(w) - 1)} : w \in DOMAIN m}

Occurrences(w, p) == Cardinality({i \in 1..(Len(w) - 1) : <<w[i], w[i + 1]>> = p})

AggregateFreq(m, p) == SumOver(DOMAIN m, [w \in DOMAIN m |-> m[w] * Occurrences(w, p)])

\* q comes before p: by the first symbol's string, then by the second's
PairBefore(q, p) == StrLess(q[1], p[1]) \/ (q[1] = p[1] /\ StrLess(q[2], p[2]))

HasLongWord(m) == \E w \in DOMAIN m : Len(w) >= 2

\* left-to-right replacement of the non-overlapping occurrences of x, y
RECURSIVE Replaced(_, _, _)
Replaced(w, x, y) ==
    IF Len(w) < 2 THEN w
    ELSE IF w[1] = x /\ w[2] = y
         THEN <<x \o y>> \o Replaced(SubSeq(w, 3, Len(w)), x, y)
         ELSE <<w[1]>> \o Replaced(Tail(w), x, y)

\* "a test? yes, a test." and its word units
ExampleText ==
    <<97, 32, 116, 101, 115, 116, 63, 32, 121, 101, 115, 44, 32, 97, 32, 116, 101,
      115, 116, 46>>
ExampleUnits ==
    << <<97>>, <<32, 116, 101, 115, 116>>, <<63>>, <<32, 121, 101, 115>>, <<44>>,
       <<32, 97>>, <<32, 116, 101, 115, 116>>, <<46>> >>

\* ------------------------------------------------------------------- C1
\* C1: when every word unit of the text has a dictionary entry, tokenize
\* returns Ok with the start marker, then the dictionary's symbol sequence of
\* each word unit in the text's order, then the end marker, and nothing else.
C1_TokenizeOutput ==
    (pc = "tokenized" /\ AllUnitsKnown) =>
        /\ result.ok
        /\ result.tokens = <<START_TOKEN>> \o Join(UnitTokens) \o <<END_TOKEN>>
        /\ Head(result.tokens) = START_TOKEN
        /\ result.tokens[Len(result.tokens)] = END_TOKEN
        /\ Len(result.tokens) = 2 + SumOver(DOMAIN UnitTokens,
                                            [k \in DOMAIN UnitTokens |-> Len(UnitTokens[k])])

\* a text of two known word units, one of them tokenized to a merged symbol
C1_Witness ==
    /\ pc = "tokenized"
    /\ AllUnitsKnown
    /\ Len(pre_tokenized) = 2
    /\ pre_tokenized[1] # pre_tokenized[2]
    /\ \E k \in DOMAIN pre_tokenized : Len(UnitTokens[k]) < Len(pre_tokenized[k])
    /\ result.ok

\* ------------------------------------------------------------------- C2
\* C2: when some word unit of the text has no dictionary entry, tokenize
\* returns the InvalidInput error "Word not found in vocabulary", no token of
\* any word unit, and the dictionary is the one training built.
C2_UnknownWordFails ==
    (pc = "tokenized" /\ ~AllUnitsKnown) =>
        /\ ~result.ok
        /\ result.kind = "InvalidInput"
        /\ result.msg = "Word not found in vocabulary"
        /\ result.tokens = <<>>
        /\ DOMAIN tokenizer = {Join(w) : w \in DOMAIN words}
        /\ \A w \in DOMAIN words : tokenizer[Join(w)] = w

\* the first word unit is known, the second is not, and every character of the
\* text occurs in the corpus
C2_Witness ==
    /\ pc = "tokenized"
    /\ Len(pre_tokenized) >= 2
    /\ pre_tokenized[1] \in DOMAIN tokenizer
    /\ pre_tokenized[2] \notin DOMAIN tokenizer
    /\ Range(text) \subseteq Range(corpus)
    /\ \E k \in DOMAIN tokenizer : Len(tokenizer[k]) < Len(k)
    /\ ~result.ok

\* ------------------------------------------------------------------- C3
\* C3: training with a target equal to the corpus's distinct-character count
\* does not fail: it returns a tokenizer whose vocab_size is the target and
\* whose dictionary is empty, on which tokenize fails for every non-empty text.
C3_DegenerateTraining ==
    (pc # "start" /\ max_vocab_size = NumDistinctChars(corpus)) =>
        /\ Trained
        /\ vocab_size = max_vocab_size
        /\ tokenizer = EmptyMap
        /\ (pc = "tokenized" /\ text # <<>>) => ~result.ok

\* ------------------------------------------------------------------- C4
\* C4: when training completes, every word unit w of the corpus is a key of
\* the dictionary and pre-tokenizes to itself, and tokenizing the text w
\* returns the start marker, the dictionary's symbols of w, the end marker.
C4_CorpusWordsRoundTrip ==
    Trained =>
        /\ \A w \in CorpusUnits : w \in DOMAIN tokenizer /\ pre_tokenize(w) = <<w>>
        /\ (pc = "tokenized" /\ text \in CorpusUnits) =>
               /\ result.ok
               /\ result.tokens = <<START_TOKEN>> \o tokenizer[text] \o <<END_TOKEN>>

\* the text is a corpus word unit that begins with a space and was merged
C4_Witness ==
    /\ pc = "tokenized"
    /\ text \in CorpusUnits
    /\ Cardinality(CorpusUnits) >= 2
    /\ Len(text) >= 2
    /\ text[1] = 32
    /\ Len(tokenizer[text]) < Len(text)
    /\ result.ok

\* ------------------------------------------------------------------- C5
\* C5: the word units of a text, concatenated in order, are the text; there
\* is one cut before every punctuation character but the text's first
\* character, and nowhere else; "a test? yes, a test." gives the eight units
\* "a", " test", "?", " yes", ",", " a", " test", ".".
C5_PreTokenizePartition ==
    pc = "pre_done" =>
        /\ Join(pre_tokenized) = text
        /\ Len(pre_tokenized)
             = 1 + Cardinality({i \in 2..Len(text) : text[i] \in PUNCTUATION})
        /\ \A k \in DOMAIN pre_tokenized :
              \A j \in 2..Len(pre_tokenized[k]) : pre_tokenized[k][j] \notin PUNCTUATION
        /\ \A k \in 2..Len(pre_tokenized) :
              pre_tokenized[k] # <<>> /\ pre_tokenized[k][1] \in PUNCTUATION
        /\ pre_tokenize(ExampleText) = ExampleUnits

\* a text that begins with punctuation (no cut: the buffer is empty) and has
\* one more punctuation character (a cut)
C5_Witness ==
    /\ pc = "pre_done"
    /\ Len(text) = 3
    /\ text[1] \in PUNCTUATION
    /\ text[2] \in PUNCTUATION
    /\ text[3] \notin PUNCTUATION
    /\ pre_tokenized = <<SubSeq(text, 1, 1), SubSeq(text, 2, 3)>>

\* ------------------------------------------------------------------- C6
\* C6 (as stated): the counter starts at the number of distinct characters,
\* increases by exactly 1 in every iteration of the training loop, and never
\* exceeds the target.
C6_EveryIterationIncrements ==
    /\ [](pc \in {"loop", "analyzed", "build", "trained", "tokenized"}
             => vocab_size <= max_vocab_size)
    /\ [][/\ (pc = "start" /\ pc' = "loop") => vocab_size' = NumDistinctChars(corpus)
          /\ pc = "analyzed" => vocab_size' = vocab_size + 1]_vars

\* C6 (amended): the counter starts at the number of distinct characters,
\* increases by exactly 1 in every iteration that merges, is left unchanged
\* by the iteration that finds frequency zero and ends the loop and by every
\* later step, and never exceeds the target.
C6_MergeIterationIncrements ==
    /\ [](pc \in {"loop", "analyzed", "build", "trained", "tokenized"}
             => vocab_size <= max_vocab_size)
    /\ [][/\ (pc = "start" /\ pc' = "loop") => vocab_size' = NumDistinctChars(corpus)
          /\ (pc = "analyzed" /\ freq # 0) => vocab_size' = vocab_size + 1
          /\ (pc = "analyzed" /\ freq = 0) => (vocab_size' = vocab_size /\ pc' = "build")
          /\ pc \in {"loop", "build", "trained", "tokenized"}
                => vocab_size' = vocab_size]_vars

\* training merged at least once and then stopped below the target
C6_Witness ==
    /\ pc = "trained"
    /\ vocab_size > NumDistinctChars(corpus)
    /\ vocab_size < max_vocab_size
    /\ freq = 0

\* ------------------------------------------------------------------- C7
\* C7: for a corpus model with a word of two or more symbols, the analyzer
\* returns a pair of maximal aggregate frequency, with that frequency, and of
\* the pairs of that frequency the greatest one (by first symbol, then by
\* second), whatever the order in which the map's words are iterated.
C7_MostFrequentPair ==
    (pc = "analyzed" /\ HasLongWord(words)) =>
        /\ pair \in PairsOf(words)
        /\ freq = AggregateFreq(words, pair)
        /\ \A q \in PairsOf(words) :
              /\ AggregateFreq(words, q) <= freq
              /\ (AggregateFreq(words, q) = freq /\ q # pair) => PairBefore(q, pair)

\* two words with pairs, and another pair as frequent as the one returned
C7_Witness ==
    /\ pc = "analyzed"
    /\ Cardinality({w \in DOMAIN words : Len(w) >= 2}) >= 2
    /\ \E q \in PairsOf(words) : q # pair /\ AggregateFreq(words, q) = freq
    /\ freq >= 1

\* ------------------------------------------------------------------- C8
\* C8: when the corpus model has no word of two or more symbols (words of one
\* symbol, or the zero-length word of an empty corpus), the analyzer returns
\* frequency zero and training stops normally with the achieved vocabulary
\* size below the target; training an empty corpus does not crash.
C8_NoPairStopsNormally ==
    (/\ pc \notin {"start", "loop"}
     /\ max_vocab_size > NumDistinctChars(corpus)
     /\ ~HasLongWord(text_to_map(pre_tokenize(corpus)))) =>
        /\ pc \in {"analyzed", "build", "trained", "tokenized"}
        /\ panic_msg = ""
        /\ freq = 0
        /\ vocab_size < max_vocab_size

\* ------------------------------------------------------------------- C9
\* C9: merge_by_pair replaces, in every word, each left-to-right
\* non-overlapping occurrence of x, y by the symbol xy (so [a,a,a] with (a,a)
\* becomes [aa,a]); each resulting word carries the summed counts of the
\* words that map to it; a pair that occurs in no word leaves the corpus
\* model unchanged.
C9_MergeByPair ==
    pc = "merge_done" =>
        /\ DOMAIN new_words = {Replaced(w, pair[1], pair[2]) : w \in DOMAIN words}
        /\ \A nw \in DOMAIN new_words :
              new_words[nw]
                = SumOver({w \in DOMAIN words : Replaced(w, pair[1], pair[2]) = nw}, words)
        /\ pair \notin PairsOf(words) => new_words = words
        /\ merge_word(<< <<97>>, <<97>>, <<97>> >>, << <<97>>, <<97>> >>)
             = << <<97, 97>>, <<97>> >>

\* [a,b,a] and [ab,a] with the pair (a,b): both become [ab,a], counts summed
C9_Witness ==
    /\ pc = "merge_done"
    /\ pair = << <<97>>, <<98>> >>
    /\ DOMAIN words = {<< <<97>>, <<98>>, <<97>> >>, << <<97, 98>>, <<97>> >>}
    /\ DOMAIN new_words = {<< <<97, 98>>, <<97>> >>}
    /\ new_words[<< <<97, 98>>, <<97>> >>] >= 2

\* ------------------------------------------------------------------ C10
\* C10: every merge keeps the concatenation of each word's symbols and the
\* number of distinct words; every dictionary key is the concatenation of its
\* value's symbols; and the tokens of a successful tokenize, without the
\* first and the last, concatenate to the text.
C10_Lossless ==
    /\ pc \in {"loop", "analyzed", "build", "trained", "tokenized"} =>
          /\ {Join(w) : w \in DOMAIN words} = CorpusUnits
          /\ Cardinality(DOMAIN words) = Cardinality(CorpusUnits)
    /\ Trained => \A k \in DOMAIN tokenizer : Join(tokenizer[k]) = k
    /\ (pc = "tokenized" /\ result.ok) =>
          Join(SubSeq(result.tokens, 2, Len(result.tokens) - 1)) = text

\* a successful tokenize of two word units after two merges
C10_Witness ==
    /\ pc = "tokenized"
    /\ result.ok
    /\ vocab_size >= NumDistinctChars(corpus) + 2
    /\ Len(pre_tokenized) >= 2
    /\ Len(result.tokens) < Len(text) + 2

====
